---- MODULE Spec2Model ----
(***************************************************************************)
(* Model of the cover-tree repository: the InsertTree (ctree/itree.hpp),   *)
(* the shared-memory driver (src/main.cpp) and the distributed driver      *)
(* (src/main_mpi.cpp).                                                      *)
(*                                                                         *)
(* Vertex ids are 0-based as in the code; TLA+ sequences are 1-based, so   *)
(* the entry of vertex v in a table t is t[v + 1].                         *)
(* Real values (radius, split_ratio, ...) are held in tenths.              *)
(***************************************************************************)
EXTENDS Integers, Sequences, FiniteSets, TLC

\* ------------------------------------------------------------------ bounds
MaxVertices == 4      \* add_vertex is not called on a tree of this size
NumItems == 2         \* distinct items handed to add_vertex
NumThreads == 2       \* hubs calling add_vertex concurrently
MaxCalls == 3         \* add_vertex calls in one concurrent run
MaxStale == 3         \* clear() is not called once the parents table is longer
MaxOpts == 3          \* options on a command line of the shared-memory driver
NumRanks == 2         \* ranks of a run of the distributed driver
MaxMpiOpts == 2       \* options on a command line of the distributed driver

\* --------------------------------------------------------------- constants
NoParent == -1        \* the "no parent" argument: any value failing parent >= 0

Items == 1..NumItems
Threads == 1..NumThreads

VARIABLES
    \* InsertTree fields
    vertices, parents, children, levels, nlevels,
    \* results of the last InsertTree call
    ret, ids,
    \* history: the add_vertex calls returned since the tree was last empty
    \* (arguments, returned id, calling hub; 0 outside the hub model)
    calls,
    \* hubs calling add_vertex inside the mutual-exclusion region
    lock, tpc, frame, acquired,
    \* the drivers: program run, one process per rank (the shared-memory
    \* driver is the single process 0)
    prog, argv, pc, nopt, g, status, out, err,
    \* history of the command line read so far by the shared-memory driver
    cmd,
    \* shared-memory driver: points, arguments of ctree.build, graph
    points, built, graph,
    \* files written by the run
    files,
    \* distributed driver: the ranks that have entered each collective
    coll,
    \* the last call made on the InsertTree: its name and argument
    op,
    \* cover tree construction: points, parameters, mode, hubs, cover radius
    \* of each vertex, history of each vertex (round and hub that committed
    \* it), the last radius query
    cpts, cparams, synch, hubs, cradius, vinfo, query,
    \* graph_is_correct: arguments, the shared flag, position of each loop
    \* iteration, value returned
    gin, correct, ipc, gret

treeVars == <<vertices, parents, children, levels, nlevels>>
callVars == <<ret, ids, calls, op>>
hubVars == <<lock, tpc, frame, acquired>>
procVars == <<pc, nopt, g, status, out, err>>
mainVars == <<cmd, points, built, graph>>
driverVars == <<prog, argv, procVars, mainVars, files, coll>>
coverVars == <<cpts, cparams, synch, hubs, cradius, vinfo, query>>
checkVars == <<gin, correct, ipc, gret>>
libVars == <<coverVars, checkVars>>
vars == <<treeVars, callVars, hubVars, driverVars, libVars>>

Max(a, b) == IF a >= b THEN a ELSE b

\* ------------------------------------------------------------- InsertTree
\* The tree as a value: the five fields of the class.
Tree == [vertices |-> vertices, parents |-> parents, children |-> children,
         levels |-> levels, nlevels |-> nlevels]

EmptyTree == [vertices |-> <<>>, parents |-> <<>>, children |-> <<>>,
              levels |-> <<>>, nlevels |-> 0]

\* id given to a new vertex: the number of vertices before the call
NewVertexIdOffByOne(T) == Len(T.vertices) + 1

NewVertexId(T) == Len(T.vertices)

\* parents table after add_vertex
NewParentsSelf(T, vertex, parent) == Append(T.parents, vertex)

NewParents(T, vertex, parent) == Append(T.parents, parent)

\* level computed by add_vertex for a new vertex below `parent`
NewLevelStrict(T, parent) ==
    IF parent > 0 THEN T.levels[parent + 1] + 1 ELSE 0

NewLevel(T, parent) ==
    IF parent >= 0 THEN T.levels[parent + 1] + 1 ELSE 0

\* children table after add_vertex: an empty list for the new vertex, and the
\* new vertex appended to the list of its parent
NewChildrenStrict(T, vertex, parent) ==
    LET grown == Append(T.children, <<>>)
    IN  IF parent > 0
        THEN [grown EXCEPT ![parent + 1] = Append(@, vertex)]
        ELSE grown

NewChildren(T, vertex, parent) ==
    LET grown == Append(T.children, <<>>)
    IN  IF parent >= 0
        THEN [grown EXCEPT ![parent + 1] = Append(@, vertex)]
        ELSE grown

NewNLevels(T, level) == Max(level + 1, T.nlevels)

\* InsertTree::add_vertex as a function of the tree: the tree after the call
\* and the id returned
add_vertex(T, item, parent) ==
    LET vertex == NewVertexId(T)
        level == NewLevel(T, parent)
    IN  [tree |-> [vertices |-> Append(T.vertices, item),
                   parents |-> NewParents(T, vertex, parent),
                   children |-> NewChildren(T, vertex, parent),
                   levels |-> Append(T.levels, level),
                   nlevels |-> NewNLevels(T, level)],
         vertex |-> vertex]

\* InsertTree::clear as a function of the tree.  The parents table is not
\* touched by clear().
clearKeepsNLevels(T) ==
    [vertices |-> <<>>, parents |-> T.parents, children |-> <<>>,
     levels |-> <<>>, nlevels |-> T.nlevels]

clear(T) ==
    [vertices |-> <<>>, parents |-> T.parents, children |-> <<>>,
     levels |-> <<>>, nlevels |-> 0]

\* InsertTree::get_children: the out-parameter ids and the returned size
get_children(T, parent) ==
    [ids |-> T.children[parent + 1], size |-> Len(T.children[parent + 1])]

SetTree(T) ==
    /\ vertices' = T.vertices
    /\ parents' = T.parents
    /\ children' = T.children
    /\ levels' = T.levels
    /\ nlevels' = T.nlevels

\* Arguments a caller may pass as parent: no parent, or a vertex of the tree
ParentArgs == {NoParent} \cup (0 .. Len(vertices) - 1)

AddVertex ==
    /\ Len(vertices) < MaxVertices
    /\ \E item \in Items, parent \in ParentArgs :
          LET r == add_vertex(Tree, item, parent)
          IN  /\ SetTree(r.tree)
              /\ ret' = r.vertex
              /\ calls' = Append(calls, [item |-> item, parent |-> parent,
                                         ret |-> r.vertex, thread |-> 0])
              /\ op' = [name |-> "add_vertex", arg |-> parent]
    /\ UNCHANGED <<ids, hubVars, driverVars, libVars>>

GetChildren ==
    /\ \E parent \in 0 .. Len(vertices) - 1 :
          LET r == get_children(Tree, parent)
          IN  /\ ids' = r.ids
              /\ ret' = r.size
              /\ op' = [name |-> "get_children", arg |-> parent]
    /\ UNCHANGED <<treeVars, calls, hubVars, driverVars, libVars>>

Clear ==
    /\ Len(parents) <= MaxStale
    /\ SetTree(clear(Tree))
    /\ calls' = <<>>
    /\ op' = [name |-> "clear", arg |-> NoParent]
    /\ UNCHANGED <<ret, ids, hubVars, driverVars, libVars>>

TreeInit ==
    /\ vertices = <<>>
    /\ parents = <<>>
    /\ children = <<>>
    /\ levels = <<>>
    /\ nlevels = 0
    /\ ret = NoParent
    /\ ids = <<>>
    /\ calls = <<>>
    /\ op = [name |-> "none", arg |-> NoParent]

HubsIdle ==
    /\ lock = 0
    /\ tpc = [t \in Threads |-> "idle"]
    /\ frame = [t \in Threads |-> [item |-> 1, parent |-> NoParent,
                                   vertex |-> 0, level |-> 0]]
    /\ acquired = <<>>

\* ------------------------------------------- hubs calling add_vertex
\* Ids a hub can name as parent: the ids add_vertex has returned so far
ReturnedIds == {calls[k].ret : k \in 1 .. Len(calls)}

IssuedCalls == Len(acquired) + Cardinality({t \in Threads : tpc[t] = "wait"})

\* A hub decides to commit a center below a vertex it knows
Call(t) ==
    /\ tpc[t] = "idle"
    /\ IssuedCalls < MaxCalls
    /\ \E item \in Items, parent \in {NoParent} \cup ReturnedIds :
          frame' = [frame EXCEPT ![t] = [item |-> item, parent |-> parent,
                                         vertex |-> 0, level |-> 0]]
    /\ tpc' = [tpc EXCEPT ![t] = "wait"]
    /\ UNCHANGED <<treeVars, callVars, lock, acquired,
                   driverVars, libVars>>

\* Entry of the mutual-exclusion region around add_vertex
Enter(t) ==
    /\ tpc[t] = "wait"
    /\ lock = 0
    /\ lock' = t
    /\ tpc' = [tpc EXCEPT ![t] = "l6"]
    /\ acquired' = Append(acquired, [item |-> frame[t].item,
                                     parent |-> frame[t].parent])
    /\ UNCHANGED <<treeVars, callVars, frame,
                   driverVars, libVars>>

\* Index vertex = vertices.size();
L6OffByOne(t) ==
    /\ tpc[t] = "l6"
    /\ frame' = [frame EXCEPT ![t].vertex = Len(vertices) + 1]
    /\ tpc' = [tpc EXCEPT ![t] = "l8"]
    /\ UNCHANGED <<treeVars, callVars, lock, acquired,
                   driverVars, libVars>>

L6(t) ==
    /\ tpc[t] = "l6"
    /\ frame' = [frame EXCEPT ![t].vertex = Len(vertices)]
    /\ tpc' = [tpc EXCEPT ![t] = "l8"]
    /\ UNCHANGED <<treeVars, callVars, lock, acquired,
                   driverVars, libVars>>

\* vertices.push_back(item);
L8(t) ==
    /\ tpc[t] = "l8"
    /\ vertices' = Append(vertices, frame[t].item)
    /\ tpc' = [tpc EXCEPT ![t] = "l9"]
    /\ UNCHANGED <<parents, children, levels, nlevels, callVars, lock, frame,
                   acquired,
                   driverVars, libVars>>

\* parents.push_back(parent);
L9(t) ==
    /\ tpc[t] = "l9"
    /\ parents' = Append(parents, frame[t].parent)
    /\ tpc' = [tpc EXCEPT ![t] = "l10"]
    /\ UNCHANGED <<vertices, children, levels, nlevels, callVars, lock, frame,
                   acquired,
                   driverVars, libVars>>

\* children.emplace_back();
L10(t) ==
    /\ tpc[t] = "l10"
    /\ children' = Append(children, <<>>)
    /\ tpc' = [tpc EXCEPT ![t] = "l12"]
    /\ UNCHANGED <<vertices, parents, levels, nlevels, callVars, lock, frame,
                   acquired,
                   driverVars, libVars>>

\* if (parent >= 0) { level = levels[parent] + 1;
\*                    children[parent].push_back(vertex); } else level = 0;
L12(t) ==
    /\ tpc[t] = "l12"
    /\ IF frame[t].parent >= 0
       THEN /\ frame' = [frame EXCEPT
                            ![t].level = levels[frame[t].parent + 1] + 1]
            /\ children' = [children EXCEPT ![frame[t].parent + 1] =
                                                Append(@, frame[t].vertex)]
       ELSE /\ frame' = [frame EXCEPT ![t].level = 0]
            /\ UNCHANGED children
    /\ tpc' = [tpc EXCEPT ![t] = "l19"]
    /\ UNCHANGED <<vertices, parents, levels, nlevels, callVars, lock,
                   acquired,
                   driverVars, libVars>>

\* nlevels = std::max(level+1, nlevels);
L19(t) ==
    /\ tpc[t] = "l19"
    /\ nlevels' = Max(frame[t].level + 1, nlevels)
    /\ tpc' = [tpc EXCEPT ![t] = "l20"]
    /\ UNCHANGED <<vertices, parents, children, levels, callVars, lock, frame,
                   acquired,
                   driverVars, libVars>>

\* levels.push_back(level);
L20(t) ==
    /\ tpc[t] = "l20"
    /\ levels' = Append(levels, frame[t].level)
    /\ tpc' = [tpc EXCEPT ![t] = "l22"]
    /\ UNCHANGED <<vertices, parents, children, nlevels, callVars, lock, frame,
                   acquired,
                   driverVars, libVars>>

\* return vertex;
L22(t) ==
    /\ tpc[t] = "l22"
    /\ ret' = frame[t].vertex
    /\ calls' = Append(calls, [item |-> frame[t].item,
                               parent |-> frame[t].parent,
                               ret |-> frame[t].vertex, thread |-> t])
    /\ tpc' = [tpc EXCEPT ![t] = "leave"]
    /\ UNCHANGED <<treeVars, ids, op, lock, frame, acquired,
                   driverVars, libVars>>

\* Exit of the mutual-exclusion region
Leave(t) ==
    /\ tpc[t] = "leave"
    /\ lock' = 0
    /\ tpc' = [tpc EXCEPT ![t] = "idle"]
    /\ UNCHANGED <<treeVars, callVars, frame, acquired,
                   driverVars, libVars>>

\* ------------------------------------------------------------ the drivers
Ranks == 0 .. NumRanks - 1

\* atof() on the option arguments used here, in tenths; text that is not a
\* number converts to 0
Atof(str) ==
    CASE str = "0.5" -> 5
      [] str = "-1" -> -10
      [] str = "1" -> 10
      [] str = "2" -> 20
      [] str = "50" -> 500
      [] OTHER -> 0

\* atoi() on the option arguments used here: the leading integer, else 0
Atoi(str) ==
    CASE str = "-1" -> -1
      [] str = "1" -> 1
      [] str = "2" -> 2
      [] str = "50" -> 50
      [] OTHER -> 0

\* getopt(): the option character when the option string has it, '?' if not
Getopt(optstring, o) == IF o.c \in optstring THEN o.c ELSE "?"

Flag(c) == [c |-> c, arg |-> ""]
Option(c, args) == {[c |-> c, arg |-> a] : a \in args}

\* exit(err) / MPIEnv::exit(err): the process ends with status err
Exit(p, code) ==
    /\ status' = [status EXCEPT ![p] = code]
    /\ pc' = [pc EXCEPT ![p] = "exited"]

Say(p, lines) == out' = [out EXCEPT ![p] = @ \cup lines]

\* if (argc - optind < 1): no operand is left after the options
MissingOperandNever(operands) == operands < 0

MissingOperand(operands) == operands < 1

\* Point files read by the drivers: 1-D points, coordinates in tenths
PointFiles == {<<>>, <<0>>, <<0, 3>>, <<0, 9>>}

\* L2 distance of 1-D points
Distance(a, b) == IF a >= b THEN a - b ELSE b - a

Indices(n) == [k \in 1 .. n |-> k - 1]

\* Lists of at most n point indices
IndexLists(n) == UNION {[1 .. k -> 0 .. n - 1] : k \in 0 .. n}

\* ------------------------------------------- shared-memory driver, main.cpp
MainOptString == {"r", "S", "s", "t", "e", "l", "o", "T", "A", "G", "v", "h"}

\* options listed by the usage message
MainDocumented == {"r", "S", "s", "l", "t", "o", "A", "T", "G", "v", "h"}

\* options a command line is made of here; -x stands for a flag that is not
\* in the option string
MainArgv ==
    Option("r", {"0.5", "-1"}) \cup Option("S", {"2", "abc"})
        \cup Option("s", {"1"}) \cup Option("l", {"0"}) \cup Option("t", {"2"})
        \cup Option("o", {"out.txt"}) \cup Option("e", {"1"})
        \cup {Flag(c) : c \in {"T", "A", "G", "v", "h", "x"}}

OperandCounts == {0, 1, 2}

MainDefaults ==
    [radius |-> 0, split_ratio |-> 5, switch_size |-> 0, min_hub_size |-> 10,
     level_synch |-> TRUE, verify_tree |-> FALSE, verify_graph |-> FALSE,
     build_graph |-> FALSE, verbose |-> FALSE, nthreads |-> 1,
     fname |-> "NULL", tree_fname |-> "NULL"]

\* body of the option loop for an option other than -h
MainHandle(G, c, optarg) ==
    CASE c = "r" -> [G EXCEPT !.radius = Atof(optarg)]
      [] c = "S" -> [G EXCEPT !.split_ratio = Atof(optarg)]
      [] c = "s" -> [G EXCEPT !.switch_size = Atof(optarg)]
      [] c = "l" -> [G EXCEPT !.min_hub_size = Atoi(optarg)]
      [] c = "t" -> [G EXCEPT !.nthreads = Atoi(optarg)]
      [] c = "o" -> [G EXCEPT !.tree_fname = optarg]
      [] c = "A" -> [G EXCEPT !.level_synch = FALSE]
      [] c = "T" -> [G EXCEPT !.verify_tree = TRUE]
      [] c = "G" -> [G EXCEPT !.verify_graph = TRUE]
      [] c = "v" -> [G EXCEPT !.verbose = TRUE]
      [] OTHER -> G

\* One turn of the option loop of parse_arguments
MainGetopt ==
    /\ prog = "main"
    /\ pc[0] = "parse"
    /\ nopt[0] < MaxOpts
    /\ \E o \in MainArgv :
          LET c == Getopt(MainOptString, o)
          IN  /\ cmd' = [cmd EXCEPT
                            !.undocumented = @ \/ o.c \notin MainDocumented,
                            !.help = @ \/ c = "h"]
              /\ IF c = "h"
                 THEN /\ err' = [err EXCEPT ![0] = @ \cup {"usage"}]
                      /\ Exit(0, 0)
                      /\ UNCHANGED g
                 ELSE /\ g' = [g EXCEPT ![0] = MainHandle(@, c, o.arg)]
                      /\ UNCHANGED <<pc, status, err>>
    /\ nopt' = [nopt EXCEPT ![0] = @ + 1]
    /\ UNCHANGED <<treeVars, callVars, hubVars, libVars, prog, argv, out, points,
                   built, graph, files, coll>>

\* End of the options: the operand check and the rest of parse_arguments
\* the graph phase is enabled by a positive radius
BuildGraphAlways(radius) == radius >= 0
BuildGraph(radius) == radius > 0

MainEndOpts ==
    /\ prog = "main"
    /\ pc[0] = "parse"
    /\ IF MissingOperand(cmd.operands)
       THEN /\ err' = [err EXCEPT
                          ![0] = @ \cup {"missing argument(s)", "usage"}]
            /\ Exit(0, 1)
            /\ UNCHANGED <<g, out>>
       ELSE LET bg == BuildGraph(g[0].radius)
            IN  /\ g' = [g EXCEPT ![0].fname = "points",
                                  ![0].build_graph = bg]
                /\ Say(0, {"cmd", "point parameters", "ctree parameters"}
                            \cup IF bg THEN {"graph parameters"} ELSE {})
                /\ pc' = [pc EXCEPT ![0] = "read"]
                /\ UNCHANGED <<status, err>>
    /\ UNCHANGED <<treeVars, callVars, hubVars, libVars, prog, argv, nopt, mainVars,
                   files, coll>>

\* PointTraits::read_from_file(points, fname); size = points.size();
MainRead ==
    /\ prog = "main"
    /\ pc[0] = "read"
    /\ \E file \in PointFiles : points' = file
    /\ Say(0, {"read points"})
    /\ pc' = [pc EXCEPT ![0] = "build"]
    /\ UNCHANGED <<treeVars, callVars, hubVars, libVars, prog, argv, nopt, g, status,
                   err, cmd, built, graph, files, coll>>

\* ctree.build(points, split_ratio, switch_size, min_hub_size, level_synch,
\*             true, verbose);
MainBuild ==
    /\ prog = "main"
    /\ pc[0] = "build"
    /\ built' = <<[split_ratio |-> g[0].split_ratio,
                   switch_size |-> g[0].switch_size,
                   min_hub_size |-> g[0].min_hub_size,
                   level_synch |-> g[0].level_synch,
                   verbose |-> g[0].verbose]>>
    /\ Say(0, {"constructed cover tree"})
    /\ pc' = [pc EXCEPT ![0] = "verify_tree"]
    /\ UNCHANGED <<treeVars, callVars, hubVars, libVars, prog, argv, nopt, g, status,
                   err, cmd, points, graph, files, coll>>

Verdict(what, passed) ==
    IF passed THEN what \o " PASSED verification"
    ELSE what \o " FAILED verification"

\* the verdict of the tree verification is printed and main goes on
ReportTreeOrAbort(passed) ==
    /\ Say(0, {Verdict("cover tree", passed)})
    /\ IF passed
       THEN pc' = [pc EXCEPT ![0] = "build_graph"] /\ UNCHANGED status
       ELSE Exit(0, 1)

ReportTree(passed) ==
    /\ Say(0, {Verdict("cover tree", passed)})
    /\ pc' = [pc EXCEPT ![0] = "build_graph"]
    /\ UNCHANGED status

\* if (verify_tree) { passed = ctree.is_correct(split_ratio); print }
MainVerifyTree ==
    /\ prog = "main"
    /\ pc[0] = "verify_tree"
    /\ IF g[0].verify_tree
       THEN \E passed \in BOOLEAN : ReportTree(passed)
       ELSE /\ pc' = [pc EXCEPT ![0] = "build_graph"]
            /\ UNCHANGED <<out, status>>
    /\ UNCHANGED <<treeVars, callVars, hubVars, libVars, prog, argv, nopt, g, err,
                   mainVars, files, coll>>

\* if (build_graph) { graph[id] = point_query(points[id], radius) for all id }
MainBuildGraph ==
    /\ prog = "main"
    /\ pc[0] = "build_graph"
    /\ IF g[0].build_graph
       THEN /\ graph' \in [1 .. Len(points) -> IndexLists(Len(points))]
            /\ Say(0, {"constructed epsilon graph"})
            /\ pc' = [pc EXCEPT ![0] = "verify_graph"]
       ELSE /\ pc' = [pc EXCEPT ![0] = "return"]
            /\ UNCHANGED <<graph, out>>
    /\ UNCHANGED <<treeVars, callVars, hubVars, libVars, prog, argv, nopt, g, status,
                   err, cmd, points, built, files, coll>>

\* the brute-force neighbour list of point i, in ascending index order
Neighbors(P, radius, i) ==
    SelectSeq(Indices(Len(P)),
              LAMBDA j : Distance(P[i + 1], P[j + 1]) <= radius)

Count(list, x) == Cardinality({k \in 1 .. Len(list) : list[k] = x})

\* std::is_permutation over two ranges of the same length
IsPermutation(a, b) ==
    \A k \in 1 .. Len(a) : Count(a, a[k]) = Count(b, a[k])

\* graph_is_correct(points, radius, graph)
GraphIsCorrect(P, radius, Gr) ==
    \A i \in 0 .. Len(P) - 1 :
        LET neighbors == Neighbors(P, radius, i)
        IN  ~ (\/ Len(neighbors) # Len(Gr[i + 1])
               \/ ~ IsPermutation(neighbors, Gr[i + 1]))

\* if (verify_graph) { correct = graph_is_correct(...); print }
MainVerifyGraph ==
    /\ prog = "main"
    /\ pc[0] = "verify_graph"
    /\ IF g[0].verify_graph
       THEN Say(0, {Verdict("epsilon graph",
                            GraphIsCorrect(points, g[0].radius, graph))})
       ELSE UNCHANGED out
    /\ pc' = [pc EXCEPT ![0] = "return"]
    /\ UNCHANGED <<treeVars, callVars, hubVars, libVars, prog, argv, nopt, g, status,
                   err, mainVars, files, coll>>

\* return 0;
MainReturn ==
    /\ prog = "main"
    /\ pc[0] = "return"
    /\ Exit(0, 0)
    /\ UNCHANGED <<treeVars, callVars, hubVars, libVars, prog, argv, nopt, g, out, err,
                   mainVars, files, coll>>

MainNext ==
    \/ MainGetopt
    \/ MainEndOpts
    \/ MainRead
    \/ MainBuild
    \/ MainVerifyTree
    \/ MainBuildGraph
    \/ MainVerifyGraph
    \/ MainReturn

\* collectives of the distributed driver
Collectives ==
    {"scatterv", "build", "build_epsilon_graph", "exscan", "gatherv"}

\* No driver runs
DriversOff ==
    /\ prog = "none"
    /\ argv = [opts |-> <<>>, operands |-> 0]
    /\ pc = [p \in Ranks |-> "off"]
    /\ nopt = [p \in Ranks |-> 0]
    /\ g = [p \in Ranks |-> MainDefaults]
    /\ status = [p \in Ranks |-> -1]
    /\ out = [p \in Ranks |-> {}]
    /\ err = [p \in Ranks |-> {}]
    /\ cmd = [undocumented |-> FALSE, help |-> FALSE, operands |-> 0]
    /\ points = <<>>
    /\ built = <<>>
    /\ graph = <<>>
    /\ files = {}
    /\ coll = [c \in Collectives |-> {}]

\* The shared-memory driver is started on some command line
MainStart ==
    /\ prog = "main"
    /\ argv = [opts |-> <<>>, operands |-> 0]
    /\ pc = [p \in Ranks |-> IF p = 0 THEN "parse" ELSE "off"]
    /\ nopt = [p \in Ranks |-> 0]
    /\ g = [p \in Ranks |-> MainDefaults]
    /\ status = [p \in Ranks |-> -1]
    /\ out = [p \in Ranks |-> {}]
    /\ err = [p \in Ranks |-> {}]
    /\ cmd \in [undocumented : {FALSE}, help : {FALSE},
                operands : OperandCounts]
    /\ points = <<>>
    /\ built = <<>>
    /\ graph = <<>>
    /\ files = {}
    /\ coll = [c \in Collectives |-> {}]

\* ----------------------------------------- distributed driver, main_mpi.cpp
MpiOptString == {"r", "S", "s", "l", "v", "h"}

\* options listed by the usage message
MpiDocumented == {"r", "S", "s", "l", "v", "h"}

\* options a command line is made of here; -x stands for a flag that is not
\* in the option string
MpiArgv ==
    Option("r", {"0.5", "-1"}) \cup Option("S", {"2"}) \cup Option("s", {"50"})
        \cup Option("l", {"0"}) \cup {Flag(c) : c \in {"v", "h", "x"}}

\* command lines given to every rank of a job
MpiCmdLines ==
    [opts : UNION {[1 .. k -> MpiArgv] : k \in 0 .. MaxMpiOpts},
     operands : OperandCounts]

MpiDefaults ==
    [radius |-> 0, split_ratio |-> 5, switch_percent |-> 1000,
     min_hub_size |-> 10, build_graph |-> FALSE, verbose |-> FALSE,
     fname |-> "NULL", mysize |-> 0, totsize |-> 0, mypoints |-> <<>>,
     sendcounts |-> <<>>, dtree |-> <<>>, mygraph |-> <<>>, myoffset |-> 0,
     mybuf |-> <<>>, buf |-> <<>>]

\* body of the option loop for an option other than -h
MpiHandle(G, c, optarg) ==
    CASE c = "r" -> [G EXCEPT !.radius = Atof(optarg)]
      [] c = "S" -> [G EXCEPT !.split_ratio = Atof(optarg)]
      [] c = "s" -> [G EXCEPT !.switch_percent = Atof(optarg)]
      [] c = "l" -> [G EXCEPT !.min_hub_size = Atoi(optarg)]
      [] c = "v" -> [G EXCEPT !.verbose = TRUE]
      [] OTHER -> G

\* One turn of the option loop of parse_arguments on rank p
MpiGetopt(p) ==
    /\ prog = "main_mpi"
    /\ pc[p] = "parse"
    /\ nopt[p] < Len(argv.opts)
    /\ LET o == argv.opts[nopt[p] + 1]
           c == Getopt(MpiOptString, o)
       IN  IF c = "h"
           THEN /\ err' = [err EXCEPT
                              ![p] = @ \cup IF p = 0 THEN {"usage"} ELSE {}]
                /\ Exit(p, 0)
                /\ UNCHANGED g
           ELSE /\ g' = [g EXCEPT ![p] = MpiHandle(@, c, o.arg)]
                /\ UNCHANGED <<pc, status, err>>
    /\ nopt' = [nopt EXCEPT ![p] = @ + 1]
    /\ UNCHANGED <<treeVars, callVars, hubVars, libVars, prog, argv, out, mainVars,
                   files, coll>>

\* End of the options on rank p: the operand check and the rest of
\* parse_arguments
MpiEndOpts(p) ==
    /\ prog = "main_mpi"
    /\ pc[p] = "parse"
    /\ nopt[p] = Len(argv.opts)
    /\ IF MissingOperand(argv.operands)
       THEN /\ err' = [err EXCEPT
                          ![p] = @ \cup IF p = 0
                                        THEN {"missing argument(s)", "usage"}
                                        ELSE {}]
            /\ Exit(p, 1)
            /\ UNCHANGED <<g, out>>
       ELSE LET bg == BuildGraph(g[p].radius)
            IN  /\ g' = [g EXCEPT ![p].fname = "points",
                                  ![p].build_graph = bg]
                /\ Say(p, IF p # 0 THEN {}
                          ELSE {"cmd", "point parameters", "ctree parameters"}
                                   \cup IF bg THEN {"graph parameters"}
                                        ELSE {})
                /\ pc' = [pc EXCEPT ![p] = IF p = 0 THEN "read"
                                           ELSE "scatterv"]
                /\ UNCHANGED <<status, err>>
    /\ UNCHANGED <<treeVars, callVars, hubVars, libVars, prog, argv, nopt, mainVars,
                   files, coll>>

\* get_balanced_counts: n points in contiguous slices over the ranks
BalancedCounts(n) ==
    [k \in 1 .. NumRanks |->
        (n \div NumRanks) + IF k - 1 < n % NumRanks THEN 1 ELSE 0]

RECURSIVE SumBelow(_, _)
\* sum of the first k entries of a list of counts
SumBelow(counts, k) ==
    IF k = 0 THEN 0 ELSE counts[k] + SumBelow(counts, k - 1)

\* Point files read by the distributed driver
MpiPointFiles == PointFiles \cup {<<0, 3, 9>>}

\* Rank 0 reads the point file and computes the send counts
MpiRead ==
    /\ prog = "main_mpi"
    /\ pc[0] = "read"
    /\ \E file \in MpiPointFiles :
          /\ points' = file
          /\ g' = [g EXCEPT ![0].totsize = Len(file),
                            ![0].sendcounts = BalancedCounts(Len(file))]
    /\ pc' = [pc EXCEPT ![0] = "scatterv"]
    /\ UNCHANGED <<treeVars, callVars, hubVars, libVars, prog, argv, nopt, status,
                   out, err, cmd, built, graph, files, coll>>

\* Rank p enters the collective it has reached
MpiArrive(p) ==
    /\ prog = "main_mpi"
    /\ pc[p] \in Collectives
    /\ p \notin coll[pc[p]]
    /\ coll' = [coll EXCEPT ![pc[p]] = @ \cup {p}]
    /\ UNCHANGED <<treeVars, callVars, hubVars, libVars, prog, argv, procVars,
                   mainVars, files>>

\* a collective returns on a rank once every rank has entered it
Ready(p, c) == pc[p] = c /\ coll[c] = Ranks

\* comm.scatterv(points, sendcounts, mypoints, 0); mysize = mypoints.size();
MpiScatterv(p) ==
    /\ prog = "main_mpi"
    /\ Ready(p, "scatterv")
    /\ LET counts == g[0].sendcounts
           first == SumBelow(counts, p)
           mine == SubSeq(points, first + 1, first + counts[p + 1])
       IN  g' = [g EXCEPT ![p].mypoints = mine, ![p].mysize = Len(mine)]
    /\ Say(p, IF p = 0 THEN {"read points"} ELSE {})
    /\ pc' = [pc EXCEPT ![p] = "build"]
    /\ UNCHANGED <<treeVars, callVars, hubVars, libVars, prog, argv, nopt, status,
                   err, mainVars, files, coll>>

\* DistCoverTree dtree(mypoints, comm); dtree.build(radius, split_ratio,
\*                                   switch_percent, min_hub_size, verbose);
\* after the build a rank enters the graph phase when build_graph is set
AfterBuildRootOnly(p) ==
    IF g[p].build_graph /\ p = 0 THEN "build_epsilon_graph" ELSE "return"
AfterBuild(p) ==
    IF g[p].build_graph THEN "build_epsilon_graph" ELSE "return"

MpiBuild(p) ==
    /\ prog = "main_mpi"
    /\ Ready(p, "build")
    /\ g' = [g EXCEPT ![p].dtree = <<[radius |-> g[p].radius,
                                      split_ratio |-> g[p].split_ratio,
                                      switch_percent |-> g[p].switch_percent,
                                      min_hub_size |-> g[p].min_hub_size,
                                      verbose |-> g[p].verbose]>>]
    /\ Say(p, IF p = 0 THEN {"constructed distributed cover tree"} ELSE {})
    /\ pc' = [pc EXCEPT ![p] = AfterBuild(p)]
    /\ UNCHANGED <<treeVars, callVars, hubVars, libVars, prog, argv, nopt, status,
                   err, mainVars, files, coll>>

\* num_edges = dtree.build_epsilon_graph(radius, mygraph);
MpiBuildEpsilonGraph(p) ==
    /\ prog = "main_mpi"
    /\ Ready(p, "build_epsilon_graph")
    /\ LET first == SumBelow(g[0].sendcounts, p)
       IN  g' = [g EXCEPT ![p].mygraph =
                    [i \in 1 .. g[p].mysize |->
                        Neighbors(points, g[p].radius, first + i - 1)]]
    /\ Say(p, IF p = 0 THEN {"constructed epsilon graph"} ELSE {})
    /\ pc' = [pc EXCEPT ![p] = "exscan"]
    /\ UNCHANGED <<treeVars, callVars, hubVars, libVars, prog, argv, nopt, status,
                   err, mainVars, files, coll>>

RECURSIVE SumSizes(_)
\* sum of mysize over the ranks below p
SumSizes(p) == IF p = 0 THEN 0 ELSE g[p - 1].mysize + SumSizes(p - 1)

RECURSIVE Flatten(_)
Flatten(lists) ==
    IF lists = <<>> THEN <<>> ELSE Head(lists) \o Flatten(Tail(lists))

\* the lines "i+myoffset j" of the edges of the local points
EdgeLinesLocalIds(mygraph, myoffset) ==
    Flatten([i \in 1 .. Len(mygraph) |->
                [k \in 1 .. Len(mygraph[i]) |->
                    <<i - 1, mygraph[i][k]>>]])

EdgeLines(mygraph, myoffset) ==
    Flatten([i \in 1 .. Len(mygraph) |->
                [k \in 1 .. Len(mygraph[i]) |->
                    <<i - 1 + myoffset, mygraph[i][k]>>]])

\* comm.exscan(mysize, myoffset, MPI_SUM, (Index)0); and the edge lines of
\* the rank written to its buffer
MpiExscan(p) ==
    /\ prog = "main_mpi"
    /\ Ready(p, "exscan")
    /\ LET myoffset == SumSizes(p)
       IN  g' = [g EXCEPT ![p].myoffset = myoffset,
                          ![p].mybuf = EdgeLines(g[p].mygraph, myoffset)]
    /\ pc' = [pc EXCEPT ![p] = "gatherv"]
    /\ UNCHANGED <<treeVars, callVars, hubVars, libVars, prog, argv, nopt, status,
                   out, err, mainVars, files, coll>>

\* comm.gatherv(mybuf, buf, 0);
MpiGatherv(p) ==
    /\ prog = "main_mpi"
    /\ Ready(p, "gatherv")
    /\ g' = [g EXCEPT ![p].buf =
                IF p = 0
                THEN Flatten([k \in 1 .. NumRanks |-> g[k - 1].mybuf])
                ELSE @]
    /\ pc' = [pc EXCEPT ![p] = IF p = 0 THEN "write" ELSE "return"]
    /\ UNCHANGED <<treeVars, callVars, hubVars, libVars, prog, argv, nopt, status,
                   out, err, mainVars, files, coll>>

\* Rank 0 writes the gathered lines to dtree.graph.txt
MpiWrite ==
    /\ prog = "main_mpi"
    /\ pc[0] = "write"
    /\ files' = files \cup {[name |-> "dtree.graph.txt", lines |-> g[0].buf]}
    /\ pc' = [pc EXCEPT ![0] = "return"]
    /\ UNCHANGED <<treeVars, callVars, hubVars, libVars, prog, argv, nopt, g, status,
                   out, err, mainVars, coll>>

\* return 0; from main_mpi, then MPIEnv::finalize() and return err from main
MpiReturn(p) ==
    /\ prog = "main_mpi"
    /\ pc[p] = "return"
    /\ Exit(p, 0)
    /\ UNCHANGED <<treeVars, callVars, hubVars, libVars, prog, argv, nopt, g, out, err,
                   mainVars, files, coll>>

MpiNext ==
    \/ MpiRead
    \/ MpiWrite
    \/ \E p \in Ranks :
          \/ MpiGetopt(p)
          \/ MpiEndOpts(p)
          \/ MpiArrive(p)
          \/ MpiScatterv(p)
          \/ MpiBuild(p)
          \/ MpiBuildEpsilonGraph(p)
          \/ MpiExscan(p)
          \/ MpiGatherv(p)
          \/ MpiReturn(p)

\* A job of the distributed driver is started, every rank on the same
\* command line
MpiStart ==
    /\ prog = "main_mpi"
    /\ argv \in MpiCmdLines
    /\ pc = [p \in Ranks |-> "parse"]
    /\ nopt = [p \in Ranks |-> 0]
    /\ g = [p \in Ranks |-> MpiDefaults]
    /\ status = [p \in Ranks |-> -1]
    /\ out = [p \in Ranks |-> {}]
    /\ err = [p \in Ranks |-> {}]
    /\ cmd = [undocumented |-> FALSE, help |-> FALSE, operands |-> 0]
    /\ points = <<>>
    /\ built = <<>>
    /\ graph = <<>>
    /\ files = {}
    /\ coll = [c \in Collectives |-> {}]

\* ============================================ cover tree construction (hubs)
\* Points are integers on a line; a point id is its position in the input,
\* starting at 0.
MaxPts == 3
CoverCoords == {0, 1, 7, 8, 9}
\* every input of at most MaxPts points, and two clusters of points
CoverInputs ==
    UNION {[1 .. n -> CoverCoords] : n \in 1 .. MaxPts}
    \cup {<<0, 1, 9, 8, 7>>, <<9, 8, 0, 1>>}
SplitRatios == {3, 5, 10}
MinHubSizes == {1, 3}
QueryCoords == CoverCoords \cup {4}
QueryRadii == {0, 1, 4}

\* distance between the points with ids i and j
D(i, j) == Distance(cpts[i + 1], cpts[j + 1])

MaxOf(S) == CHOOSE x \in S : \A y \in S : y <= x

\* the ids of `S` in ascending order
RECURSIVE Ascending(_)
Ascending(S) ==
    IF S = {} THEN <<>>
    ELSE LET m == CHOOSE x \in S : \A y \in S : x <= y
         IN  <<m>> \o Ascending(S \ {m})

\* A hub under vertex `v`, whose point `c` is the first center, with the
\* candidates `cands`: every candidate is assigned to the first center and the
\* bound is the largest distance to it.  A hub with at most min_hub_size
\* candidates skips refinement and commits its candidates as leaves.
NewHub(v, c, cands, round) ==
    [vertex |-> v,
     cands |-> cands,
     centers |-> <<[pt |-> c, vtx |-> v]>>,
     asg |-> [p \in cands |-> 1],
     dist |-> [p \in cands |-> D(p, c)],
     bound |-> MaxOf({D(p, c) : p \in cands}),
     status |-> IF Cardinality(cands) <= cparams.min_hub_size
                THEN "leaves" ELSE "open",
     todo |-> IF Cardinality(cands) <= cparams.min_hub_size
              THEN Ascending(cands) ELSE <<>>,
     next |-> round]

\* the candidate farthest from its center, the lower id on a tie
Farthest(h) ==
    CHOOSE p \in h.cands :
        \A q \in h.cands :
            \/ h.dist[q] < h.dist[p]
            \/ h.dist[q] = h.dist[p] /\ p <= q

\* the farthest candidate is beyond split_ratio * bound (split_ratio in tenths)
Beyond(h) == 10 * h.dist[Farthest(h)] > cparams.split_ratio * h.bound

\* a candidate moves to the new center only when strictly closer to it
Closer(h, p, c) == D(p, c) < h.dist[p]

\* `h` after its farthest candidate became the center with vertex `vtx`
Commit(h, vtx) ==
    LET c == Farthest(h)
        k == Len(h.centers) + 1
    IN  [h EXCEPT
            !.centers = Append(@, [pt |-> c, vtx |-> vtx]),
            !.asg = [p \in h.cands |-> IF Closer(h, p, c) THEN k ELSE h.asg[p]],
            !.dist = [p \in h.cands |->
                         IF Closer(h, p, c) THEN D(p, c) ELSE h.dist[p]]]

Assigned(h, k) == {p \in h.cands : h.asg[p] = k}

Active(h) == h.status # "retired"

\* level-synchronous mode: a hub takes its step of a round only when every
\* hub has finished the round before
BarrierOpen(i) == TRUE
Barrier(i) ==
    \A j \in 1 .. Len(hubs) :
        /\ hubs[j].status = "open" => hubs[j].next >= hubs[i].next
        /\ hubs[j].status \in {"done", "leaves"} => hubs[j].next > hubs[i].next

\* level-synchronous mode: children are produced after the barrier of the round
AfterBarrier(i) ==
    \A j \in 1 .. Len(hubs) :
        hubs[j].status = "open" => hubs[j].next >= hubs[i].next

\* the cover radius of the vertex of a hub: the largest distance from its
\* point to a candidate assigned to it, recorded when the hub is created
CoverRadiusScaled(h) == (cparams.split_ratio * h.bound) \div 10
CoverRadius(h) == h.bound

\* `radii` with the cover radius of the vertex of each hub of `kids` recorded
Recorded(radii, kids) ==
    [n \in 1 .. Len(radii) |->
        IF \E k \in 1 .. Len(kids) : kids[k].vertex = n - 1
        THEN CoverRadius(kids[CHOOSE k \in 1 .. Len(kids) :
                                  kids[k].vertex = n - 1])
        ELSE radii[n]]

\* the history of a vertex: the round in which it was committed as a center
\* (0 when it is not a center of a level-synchronous round) and its hub
Info(round, hub) == [round |-> round, hub |-> hub]

CoverInit ==
    /\ cpts \in CoverInputs
    /\ cparams \in [split_ratio : SplitRatios, min_hub_size : MinHubSizes]
    /\ synch \in BOOLEAN
    /\ hubs = <<>>
    /\ cradius = <<>>
    /\ vinfo = <<>>
    /\ query = [asked |-> FALSE, q |-> 0, r |-> 0, hits |-> {}]

\* build: point 0 becomes the root vertex; with more than one point the root
\* hub holds every point and has point 0 as its first center
BuildStart ==
    /\ vertices = <<>>
    /\ hubs = <<>>
    /\ LET r == add_vertex(Tree, 0, NoParent)
       IN  /\ SetTree(r.tree)
           /\ vinfo' = <<Info(0, 0)>>
           /\ hubs' = IF Len(cpts) > 1
                      THEN <<NewHub(r.vertex, 0, 0 .. Len(cpts) - 1, 1)>>
                      ELSE <<[NewHub(r.vertex, 0, {0}, 1)
                                 EXCEPT !.status = "retired", !.todo = <<>>]>>
           /\ cradius' = Recorded(<<0>>, hubs')
    /\ UNCHANGED <<callVars, hubVars, driverVars, checkVars,
                   cpts, cparams, synch, query>>

\* one refinement step of hub i: the farthest candidate becomes a center when
\* it is beyond the threshold, otherwise refinement has terminated
HubStep(i) ==
    /\ hubs[i].status = "open"
    /\ synch => Barrier(i)
    /\ LET h == hubs[i]
       IN  IF Beyond(h)
           THEN LET r == add_vertex(Tree, Farthest(h), h.vertex)
                IN  /\ SetTree(r.tree)
                    /\ cradius' = Append(cradius, 0)
                    /\ vinfo' = Append(vinfo,
                                       Info(IF synch THEN h.next ELSE 0, i))
                    /\ hubs' = [hubs EXCEPT
                                   ![i] = [Commit(h, r.vertex)
                                              EXCEPT !.next = h.next + 1]]
           ELSE /\ hubs' = [hubs EXCEPT
                               ![i] = IF Len(h.centers) = 1
                                      THEN [h EXCEPT !.status = "leaves",
                                                     !.todo = Ascending(h.cands),
                                                     !.next = h.next + 1]
                                      ELSE [h EXCEPT !.status = "done",
                                                     !.next = h.next + 1]]
                /\ UNCHANGED <<treeVars, cradius, vinfo>>
    /\ UNCHANGED <<callVars, hubVars, driverVars, checkVars,
                   cpts, cparams, synch, query>>

\* a center of a terminated hub with at least two assigned candidates spawns a
\* child hub; with exactly one it stays a leaf
ChildHubs(h, first, seedvtx) ==
    LET ks == {k \in first .. Len(h.centers) :
                  Cardinality(Assigned(h, k)) >= 2}
        order == Ascending(ks)
    IN  [n \in 1 .. Len(order) |->
            LET k == order[n]
            IN  NewHub(IF k = 1 THEN seedvtx ELSE h.centers[k].vtx,
                       h.centers[k].pt, Assigned(h, k), h.next)]

\* hub i, terminated with several centers, produces its children and retires;
\* the candidates left with the first center go to a hub under a nested
\* vertex of the same point
HubSplit(i) ==
    /\ hubs[i].status = "done"
    /\ synch => AfterBarrier(i)
    /\ LET h == hubs[i]
           retired == [hubs EXCEPT ![i].status = "retired"]
       IN  IF Cardinality(Assigned(h, 1)) >= 2
           THEN LET r == add_vertex(Tree, h.centers[1].pt, h.vertex)
                    kids == ChildHubs(h, 1, r.vertex)
                IN  /\ SetTree(r.tree)
                    /\ vinfo' = Append(vinfo, Info(0, i))
                    /\ cradius' = Recorded(Append(cradius, 0), kids)
                    /\ hubs' = retired \o kids
           ELSE LET kids == ChildHubs(h, 2, h.vertex)
                IN  /\ cradius' = Recorded(cradius, kids)
                    /\ hubs' = retired \o kids
                    /\ UNCHANGED <<treeVars, vinfo>>
    /\ UNCHANGED <<callVars, hubVars, driverVars, checkVars,
                   cpts, cparams, synch, query>>

\* hub i commits its next candidate as a direct leaf child with radius 0, and
\* retires after the last one
HubLeaf(i) ==
    /\ hubs[i].status = "leaves"
    /\ synch => AfterBarrier(i)
    /\ LET h == hubs[i]
           r == add_vertex(Tree, Head(h.todo), h.vertex)
           last == Len(h.todo) = 1
       IN  /\ SetTree(r.tree)
           /\ vinfo' = Append(vinfo, Info(0, i))
           /\ cradius' = Append(cradius, 0)
           /\ hubs' = [hubs EXCEPT
                          ![i].todo = Tail(@),
                          ![i].status = IF last THEN "retired" ELSE @]
    /\ UNCHANGED <<callVars, hubVars, driverVars, checkVars,
                   cpts, cparams, synch, query>>

\* the remaining hubs are dispatched as independent tasks
SwitchToTasks ==
    /\ synch
    /\ \E i \in 1 .. Len(hubs) : Active(hubs[i])
    /\ synch' = FALSE
    /\ UNCHANGED <<treeVars, callVars, hubVars, driverVars, checkVars,
                   cpts, cparams, hubs, cradius, vinfo, query>>

Completed ==
    /\ hubs # <<>>
    /\ \A i \in 1 .. Len(hubs) : ~ Active(hubs[i])

\* radius query: the child c is entered when d(q, p_c) <= r + R_c
DescendNoSlack(q, r, c) == Distance(q, cpts[vertices[c + 1] + 1]) <= r
Descend(q, r, c) == Distance(q, cpts[vertices[c + 1] + 1]) <= r + cradius[c + 1]

RECURSIVE Visit(_, _, _)
\* the point ids hit in the subtree of vertex v
Visit(q, r, v) ==
    (IF Distance(q, cpts[vertices[v + 1] + 1]) <= r
     THEN {vertices[v + 1]} ELSE {})
    \cup UNION {Visit(q, r, children[v + 1][k]) :
                   k \in {k \in 1 .. Len(children[v + 1]) :
                             Descend(q, r, children[v + 1][k])}}

point_query(q, r) == Visit(q, r, 0)

Query ==
    /\ Completed
    /\ ~ query.asked
    /\ \E q \in QueryCoords, r \in QueryRadii :
          query' = [asked |-> TRUE, q |-> q, r |-> r, hits |-> point_query(q, r)]
    /\ UNCHANGED <<treeVars, callVars, hubVars, driverVars, checkVars,
                   cpts, cparams, synch, hubs, cradius, vinfo>>

CoverNext ==
    \/ BuildStart
    \/ \E i \in 1 .. Len(hubs) : HubStep(i) \/ HubSplit(i) \/ HubLeaf(i)
    \/ SwitchToTasks
    \/ Query

\* ======================================== graph_is_correct, the parallel loop
CheckRadii == {0, 3, 10}

\* the arguments of a call: points, a radius and one index list per point
CheckInputs ==
    UNION {[points : {P}, radius : CheckRadii,
            graph : [1 .. Len(P) -> IndexLists(Len(P))]] : P \in PointFiles}

\* the test of iteration i: the neighbors found by the scan differ from
\* graph[i] in number, or are not a permutation of it
MismatchSizeOnly(P, radius, Gr, i) ==
    Len(Neighbors(P, radius, i)) # Len(Gr[i + 1])
Mismatch(P, radius, Gr, i) ==
    LET neighbors == Neighbors(P, radius, i)
    IN  \/ Len(neighbors) # Len(Gr[i + 1])
        \/ ~ IsPermutation(neighbors, Gr[i + 1])

CheckInit ==
    /\ gin \in CheckInputs
    /\ correct = TRUE
    /\ ipc = [k \in 1 .. Len(gin.points) |-> "l186"]
    /\ gret = <<>>

\* iteration i reads the flag without synchronisation: once the flag is
\* false the read yields false or the earlier value true
IterRead(i) ==
    /\ ipc[i + 1] = "l186"
    /\ \E seen \in (IF correct THEN {TRUE} ELSE BOOLEAN) :
          ipc' = [ipc EXCEPT ![i + 1] = IF seen THEN "l188" ELSE "skipped"]
    /\ UNCHANGED <<treeVars, callVars, hubVars, driverVars, coverVars,
                   gin, correct, gret>>

\* iteration i scans the points and compares with graph[i]
IterCompare(i) ==
    /\ ipc[i + 1] = "l188"
    /\ ipc' = [ipc EXCEPT ![i + 1] =
                  IF Mismatch(gin.points, gin.radius, gin.graph, i)
                  THEN "l197" ELSE "passed"]
    /\ UNCHANGED <<treeVars, callVars, hubVars, driverVars, coverVars,
                   gin, correct, gret>>

\* iteration i writes the flag atomically
IterWrite(i) ==
    /\ ipc[i + 1] = "l197"
    /\ correct' = FALSE
    /\ ipc' = [ipc EXCEPT ![i + 1] = "wrote"]
    /\ UNCHANGED <<treeVars, callVars, hubVars, driverVars, coverVars,
                   gin, gret>>

\* the loop has ended: the flag is returned
CheckReturn ==
    /\ gret = <<>>
    /\ \A k \in 1 .. Len(ipc) : ipc[k] \in {"skipped", "passed", "wrote"}
    /\ gret' = <<correct>>
    /\ UNCHANGED <<treeVars, callVars, hubVars, driverVars, coverVars,
                   gin, correct, ipc>>

CheckNext ==
    \/ \E i \in 0 .. Len(ipc) - 1 : IterRead(i) \/ IterCompare(i) \/ IterWrite(i)
    \/ CheckReturn

\* No cover tree is being built
CoverOff ==
    /\ cpts = <<>>
    /\ cparams = [split_ratio |-> 5, min_hub_size |-> 10]
    /\ synch = TRUE
    /\ hubs = <<>>
    /\ cradius = <<>>
    /\ vinfo = <<>>
    /\ query = [asked |-> FALSE, q |-> 0, r |-> 0, hits |-> {}]

\* graph_is_correct is not running
CheckOff ==
    /\ gin = [points |-> <<>>, radius |-> 0, graph |-> <<>>]
    /\ correct = TRUE
    /\ ipc = <<>>
    /\ gret = <<>>

LibOff == CoverOff /\ CheckOff

\* The tree driven by add_vertex and get_children only
InitAdd == TreeInit /\ HubsIdle /\ DriversOff /\ LibOff
NextAdd == AddVertex \/ GetChildren
SpecAdd == InitAdd /\ [][NextAdd]_vars

\* The tree driven by add_vertex, get_children and clear
Init == TreeInit /\ HubsIdle /\ DriversOff /\ LibOff
Next == AddVertex \/ GetChildren \/ Clear
Spec == Init /\ [][Next]_vars

\* The shared-memory driver alone
InitMain == TreeInit /\ HubsIdle /\ MainStart /\ LibOff
SpecMain == InitMain /\ [][MainNext]_vars

\* Either driver
InitDrivers == TreeInit /\ HubsIdle /\ (MainStart \/ MpiStart) /\ LibOff
NextDrivers == MainNext \/ MpiNext
SpecDrivers == InitDrivers /\ [][NextDrivers]_vars

\* The distributed driver alone
InitMpi == TreeInit /\ HubsIdle /\ MpiStart /\ LibOff
SpecMpi == InitMpi /\ [][MpiNext]_vars

\* Cover tree construction by hubs, then radius queries
InitCover == TreeInit /\ HubsIdle /\ DriversOff /\ CoverInit /\ CheckOff
SpecCover == InitCover /\ [][CoverNext]_vars

\* graph_is_correct with its iterations run in any interleaving
InitCheck == TreeInit /\ HubsIdle /\ DriversOff /\ CoverOff /\ CheckInit
SpecCheck == InitCheck /\ [][CheckNext]_vars

\* The distributed driver with every rank running until it exits
SpecMpiFair == SpecMpi /\ WF_vars(MpiNext)

\* Hubs appending to one tree, each call inside the mutual-exclusion region
InitHubs == TreeInit /\ HubsIdle /\ DriversOff /\ LibOff
NextHubs ==
    \E t \in Threads :
        \/ Call(t)
        \/ Enter(t)
        \/ L6(t)
        \/ L8(t)
        \/ L9(t)
        \/ L10(t)
        \/ L12(t)
        \/ L19(t)
        \/ L20(t)
        \/ L22(t)
        \/ Leave(t)
SpecHubs == InitHubs /\ [][NextHubs]_vars

\* =================================================================== claims
VertexIds == 0 .. Len(vertices) - 1

RECURSIVE SeqRun(_)
\* the tree built by making the calls of `log` one after another
SeqRun(log) ==
    IF log = <<>> THEN EmptyTree
    ELSE LET n == Len(log)
         IN  add_vertex(SeqRun(SubSeq(log, 1, n - 1)),
                        log[n].item, log[n].parent).tree

Quiescent == \A t \in Threads : tpc[t] = "idle"

\* C1: calls made by several hubs inside the mutual-exclusion region return
\* pairwise distinct ids, the ids returned by n calls are exactly 0..n-1, and
\* once every call has returned the tree equals the tree built by running
\* the same calls one after another in the order they entered the region.
C1_SerializedAppends ==
    /\ \A j, k \in 1 .. Len(calls) : j # k => calls[j].ret # calls[k].ret
    /\ ReturnedIds = 0 .. Len(calls) - 1
    /\ Quiescent =>
          /\ Len(calls) = Len(acquired)
          /\ \A k \in 1 .. Len(calls) :
                /\ calls[k].item = acquired[k].item
                /\ calls[k].parent = acquired[k].parent
          /\ Tree = SeqRun(acquired)

\* all calls have returned; two hubs took turns, one appending below the
\* vertex the other one had just added
C1_Witness ==
    /\ Quiescent
    /\ Len(calls) = MaxCalls
    /\ \E k \in 1 .. Len(calls) - 1 :
          /\ calls[k].thread # calls[k + 1].thread
          /\ calls[k + 1].parent = calls[k].ret
    /\ nlevels >= 2

\* C2: from an empty tree the k-th add_vertex call (k = 0, 1, ...) returns k,
\* the number of vertices present before it, and an id returned earlier still
\* denotes the item it was returned for after later calls.
C2_IdsInInsertionOrder ==
    /\ Len(vertices) = Len(calls)
    /\ \A k \in 1 .. Len(calls) :
          /\ calls[k].ret = k - 1
          /\ vertices[calls[k].ret + 1] = calls[k].item

C2_Witness ==
    /\ Len(calls) >= 3
    /\ calls[1].item # calls[3].item
    /\ ret = 2

\* n-th ancestor of v in the parents table (NoParent once the chain ends)
RECURSIVE Ancestor(_, _)
Ancestor(v, n) ==
    IF n = 0 \/ v < 0 THEN v ELSE Ancestor(parents[v + 1], n - 1)

\* C3: after any sequence of add_vertex calls every vertex with a recorded
\* parent has parent_id(v) < id(v), and following parents from any vertex
\* ends at "no parent": the parents table has no cycle.
C3_ParentBeforeChild ==
    \A v \in VertexIds :
        /\ parents[v + 1] >= 0 => parents[v + 1] < v
        /\ Ancestor(v, Len(vertices)) < 0

C3_Witness ==
    /\ Len(vertices) >= 3
    /\ parents[3] = 1
    /\ parents[2] = 0

\* C4: after any sequence of add_vertex calls a vertex added with the
\* no-parent argument has level 0 and every other vertex v has
\* level(v) = level(parent(v)) + 1.
C4_LevelIsParentLevelPlusOne ==
    \A v \in VertexIds :
        IF calls[v + 1].parent = NoParent
        THEN levels[v + 1] = 0
        ELSE levels[v + 1] = levels[parents[v + 1] + 1] + 1

C4_Witness ==
    /\ Len(vertices) >= 3
    /\ calls[1].parent = NoParent
    /\ calls[2].parent = 0
    /\ calls[3].parent = 1
    /\ levels[3] = 2

MaxLevel == CHOOSE m \in {levels[v + 1] : v \in VertexIds} :
                \A v \in VertexIds : levels[v + 1] <= m

\* C5: after any sequence of add_vertex and clear calls num_levels() is
\* 1 + the maximum level of the vertices in the tree, and 0 for an empty tree.
C5_NLevelsIsOnePlusMaxLevel ==
    nlevels = IF vertices = <<>> THEN 0 ELSE 1 + MaxLevel

\* a tree rebuilt after clear() that is shallower than the one cleared
C5_Witness ==
    /\ Len(parents) > Len(vertices) + 1
    /\ parents[2] = 0
    /\ Len(vertices) = 2
    /\ nlevels = 1

\* ------------------------------------------------------- claims, drivers
\* the command line of process p carries no filename after the options
NoFilename == IF prog = "main" THEN cmd.operands < 1 ELSE argv.operands < 1

\* options process p has read so far
OptionsRead(p) == {argv.opts[i].c : i \in 1 .. nopt[p]}

SeenHelp(p) == IF prog = "main" THEN cmd.help ELSE "h" \in OptionsRead(p)

SeenUndocumented(p) ==
    IF prog = "main" THEN cmd.undocumented
    ELSE OptionsRead(p) \ MpiDocumented # {}

\* parse_arguments has ended on process p, by return or by exit
Parsed(p) == pc[p] \notin {"off", "parse"}

\* process p has neither read a point file nor built a tree
NothingStarted(p) ==
    /\ g[p].fname = "NULL"
    /\ out[p] = {}
    /\ points = <<>>
    /\ built = <<>>
    /\ prog = "main_mpi" => g[p].dtree = <<>> /\ coll["scatterv"] = {}

\* C6 as stated: in both drivers a command line without a filename makes
\* parse_arguments print the usage message and the process exit with status 1
\* before any point file is read and any tree is built.
C6_MissingFilenameExitsOne ==
    \A p \in Ranks :
        Parsed(p) /\ NoFilename =>
            /\ pc[p] = "exited"
            /\ status[p] = 1
            /\ "usage" \in err[p]
            /\ NothingStarted(p)

\* C6 amended: in both drivers a command line without a filename and without
\* -h makes the process exit with status 1 before any point file is read and
\* any tree is built; the message and the usage text are printed by the
\* shared-memory driver and by rank 0 of the distributed driver.  With -h the
\* process prints the usage text (rank 0) and exits with status 0.
C6_MissingFilenameWithoutHelpExitsOne ==
    \A p \in Ranks :
        Parsed(p) /\ NoFilename =>
            /\ pc[p] = "exited"
            /\ status[p] = IF SeenHelp(p) THEN 0 ELSE 1
            /\ p = 0 => "usage" \in err[p]
            /\ p = 0 /\ ~ SeenHelp(p) => "missing argument(s)" \in err[p]
            /\ p # 0 => err[p] = {}
            /\ NothingStarted(p)

\* every rank of a job has left parse_arguments through the operand check
C6_Witness ==
    /\ prog = "main_mpi"
    /\ NoFilename
    /\ \A p \in Ranks :
          pc[p] = "exited" /\ status[p] = 1 /\ nopt[p] = MaxMpiOpts
                           /\ ~ SeenHelp(p)

\* C7: in both drivers a command line with a flag that is not one of the
\* documented options makes the process exit with status 1 without reading
\* the point file or building the tree.
C7_UnknownFlagExitsOne ==
    \A p \in Ranks :
        Parsed(p) /\ SeenUndocumented(p) =>
            /\ pc[p] = "exited"
            /\ status[p] = 1
            /\ NothingStarted(p)

InvalidParameters(G) ==
    \/ G.split_ratio \notin 1 .. 10
    \/ G.min_hub_size < 1
    \/ G.radius < 0 /\ G.verify_graph

\* C8: invalid parameters (split_ratio outside (0, 1], min_hub_size < 1, or
\* radius < 0 together with -G) make the shared-memory driver print a
\* diagnostic and exit with a non-zero status without building a tree, and
\* construction is only started with split_ratio in (0, 1] and
\* min_hub_size >= 1.
C8_InvalidParametersRejected ==
    /\ Parsed(0) /\ InvalidParameters(g[0]) =>
          /\ pc[0] = "exited"
          /\ status[0] > 0
          /\ err[0] # {}
          /\ built = <<>>
    /\ built # <<>> =>
          /\ built[1].split_ratio \in 1 .. 10
          /\ built[1].min_hub_size >= 1

\* main has returned (the process did not exit inside parse_arguments)
Returned == pc[0] = "exited" /\ g[0].fname # "NULL"

\* C9: when the graph phase is enabled and -o named an output file, the
\* shared-memory driver has written every edge of the graph to that file, one
\* "src dst" line per edge in any order, when it exits with status 0.
C9_EdgesWrittenToOutputFile ==
    Returned /\ status[0] = 0 /\ g[0].build_graph
             /\ g[0].tree_fname # "NULL" =>
        \E f \in files :
            /\ f.name = g[0].tree_fname
            /\ Len(f.lines) = Len(EdgeLines(graph, 0))
            /\ IsPermutation(f.lines, EdgeLines(graph, 0))

TreeVerdicts == {Verdict("cover tree", b) : b \in BOOLEAN}
GraphVerdicts == {Verdict("epsilon graph", b) : b \in BOOLEAN}

\* C10 as stated: whatever the verification results, the shared-memory driver
\* reports PASSED or FAILED for each requested verification and exits with
\* status 0, and a failed tree verification does not stop the graph phase.
C10_RequestedVerificationsReported ==
    Returned =>
        /\ status[0] = 0
        /\ g[0].verify_tree => Cardinality(out[0] \cap TreeVerdicts) = 1
        /\ g[0].verify_graph => Cardinality(out[0] \cap GraphVerdicts) = 1
        /\ g[0].radius > 0 => "constructed epsilon graph" \in out[0]

\* C10 amended: whatever the verification results, the shared-memory driver
\* exits with status 0; it reports PASSED or FAILED for the tree verification
\* when -T was given and for the graph verification when -G was given and the
\* radius is > 0 (with radius <= 0 the graph verification is skipped and
\* nothing is reported for it); a failed tree verification does not stop the
\* graph phase.
C10_VerificationFailureIsNotAnError ==
    Returned =>
        /\ status[0] = 0
        /\ Cardinality(out[0] \cap TreeVerdicts) =
              IF g[0].verify_tree THEN 1 ELSE 0
        /\ Cardinality(out[0] \cap GraphVerdicts) =
              IF g[0].verify_graph /\ g[0].radius > 0 THEN 1 ELSE 0
        /\ g[0].verify_graph /\ g[0].radius > 0 =>
              Verdict("epsilon graph",
                      GraphIsCorrect(points, g[0].radius, graph)) \in out[0]
        /\ g[0].radius > 0 <=> "constructed epsilon graph" \in out[0]

\* both verifications failed and the run still built the graph and exited 0
C10_Witness ==
    /\ Returned
    /\ status[0] = 0
    /\ Verdict("cover tree", FALSE) \in out[0]
    /\ Verdict("epsilon graph", FALSE) \in out[0]
    /\ Len(points) = 2

\* ------------------------------------------- claims, distributed driver
\* rank p has its offset: exscan has returned on it
Scanned(p) ==
    /\ prog = "main_mpi"
    /\ g[p].build_graph
    /\ pc[p] \in {"gatherv", "write", "return", "exited"}

\* the global source ids rank p emits: i + myoffset for its local indices i
SourceIds(p) == {i + g[p].myoffset : i \in 0 .. g[p].mysize - 1}

\* C11: the myoffset of rank k is the sum of mysize over the ranks below k
\* (0 for rank 0), and the source ids i + myoffset emitted over all ranks and
\* local indices 0 <= i < mysize map one-to-one onto 0..totsize-1; the id
\* i + myoffset of rank k denotes the point that rank holds at index i.
C11_OffsetsPartitionSourceIds ==
    /\ \A p \in Ranks :
          Scanned(p) =>
              /\ g[p].myoffset =
                    SumBelow([k \in 1 .. NumRanks |-> g[k - 1].mysize], p)
              /\ {line[1] : line \in {g[p].mybuf[k] :
                                         k \in 1 .. Len(g[p].mybuf)}}
                     = SourceIds(p)
              /\ \A i \in 0 .. g[p].mysize - 1 :
                    g[p].mypoints[i + 1] = points[i + g[p].myoffset + 1]
    /\ \A p, q \in Ranks :
          Scanned(p) /\ Scanned(q) /\ p # q =>
              SourceIds(p) \cap SourceIds(q) = {}
    /\ (\A p \in Ranks : Scanned(p)) =>
          UNION {SourceIds(p) : p \in Ranks} = 0 .. g[0].totsize - 1

\* three points over the ranks: rank 0 holds two, rank 1 starts at offset 2
C11_Witness ==
    /\ \A p \in Ranks : Scanned(p)
    /\ g[0].totsize = 3
    /\ g[0].mysize = 2
    /\ g[1].mysize = 1
    /\ g[1].myoffset = 2
    /\ Len(g[1].mybuf) >= 1

\* ------------------------------------------------- claims, cover tree
\* the points within distance r of q, by scanning every point
BruteForce(q, r) == {i \in 0 .. Len(cpts) - 1 : Distance(q, cpts[i + 1]) <= r}

\* C12: on a completed tree point_query(q, r) returns exactly the ids of the
\* points p with d(q, p) <= r, the result of the brute-force scan: no point is
\* missing and no point is extra, for every point set, query point (every
\* input point included) and radius.
C12_PointQueryIsExact ==
    query.asked => query.hits = BruteForce(query.q, query.r)

\* a query that hits points two levels below the root and misses others
C12_Witness ==
    /\ query.asked
    /\ query.r > 0
    /\ query.hits # {}
    /\ query.hits # 0 .. Len(cpts) - 1
    /\ \E v \in VertexIds : levels[v + 1] >= 2 /\ vertices[v + 1] \in query.hits
    /\ Distance(query.q, cpts[1]) > query.r

\* C13: in every completed tree, in level-synchronous and in task mode and
\* for every interleaving of the hubs, every non-root vertex v satisfies
\* d(point(v), point(parent(v))) <= cover_radius(parent(v)).
C13_TreeCovering ==
    Completed =>
        \A v \in VertexIds :
            parents[v + 1] # NoParent =>
                D(vertices[v + 1], vertices[parents[v + 1] + 1])
                    <= cradius[parents[v + 1] + 1]

\* a tree completed by tasks, three levels deep, where a child lies exactly on
\* the cover radius of its parent and a later hub appended before an earlier
C13_Witness ==
    /\ Completed
    /\ ~ synch
    /\ nlevels >= 3
    /\ \E v \in VertexIds :
          /\ parents[v + 1] # NoParent
          /\ cradius[parents[v + 1] + 1] > 0
          /\ D(vertices[v + 1], vertices[parents[v + 1] + 1])
                = cradius[parents[v + 1] + 1]
    /\ \E u, w \in VertexIds : u < w /\ vinfo[u + 1].hub > vinfo[w + 1].hub

\* C15: in level-synchronous mode every center committed in a round has a
\* smaller vertex id than every center committed in a later round, the next
\* round in particular, whatever the order of the hubs inside a round.
C15_RoundsOrderIds ==
    \A u, v \in VertexIds :
        vinfo[u + 1].round >= 1 /\ vinfo[u + 1].round < vinfo[v + 1].round
            => u < v

\* two hubs committed centers in round k in the reverse of their creation
\* order, and a center was committed in round k + 1
C15_Witness ==
    \E u, v, w \in VertexIds :
        /\ vinfo[u + 1].round >= 1
        /\ vinfo[v + 1].round = vinfo[u + 1].round
        /\ vinfo[w + 1].round = vinfo[u + 1].round + 1
        /\ u < v
        /\ vinfo[u + 1].hub > vinfo[v + 1].hub

\* ------------------------------------------------- claims, children lists
\* v is in the list of p exactly once when p is its parent, and not otherwise
\* (so a vertex without parent is in no list); each list is in ascending order
ChildrenListsMatchParents ==
    /\ \A p, v \in VertexIds :
          Count(children[p + 1], v) = IF parents[v + 1] = p THEN 1 ELSE 0
    /\ \A p \in VertexIds :
          /\ \A k \in 1 .. Len(children[p + 1]) : children[p + 1][k] \in VertexIds
          /\ \A j, k \in 1 .. Len(children[p + 1]) :
                j < k => children[p + 1][j] < children[p + 1][k]

\* C14: after any sequence of add_vertex calls, v appears in children[p]
\* exactly once if and only if parent(v) = p, a vertex added without parent
\* appears in no list, each list is in ascending id order, and
\* get_children(p, ids) yields that list and its length and leaves the tree
\* unchanged.
C14_ChildrenLists ==
    /\ [](/\ ChildrenListsMatchParents
          /\ op.name = "get_children" =>
                 /\ ids = children[op.arg + 1]
                 /\ ret = Len(children[op.arg + 1]))
    /\ [][op'.name = "get_children" => UNCHANGED treeVars]_vars

\* get_children on a vertex with two children, in a tree that also holds a
\* second vertex without parent
C14_Witness ==
    /\ op.name = "get_children"
    /\ ret = 2
    /\ ids[1] < ids[2]
    /\ \E v \in VertexIds : v > 0 /\ parents[v + 1] = NoParent

\* ------------------------------------------------- claims, graph_is_correct
\* graph[i] holds exactly the indices within the radius of point i, each once
RowsAreNeighborSets ==
    \A i, j \in 0 .. Len(gin.points) - 1 :
        Count(gin.graph[i + 1], j) =
            IF Distance(gin.points[i + 1], gin.points[j + 1]) <= gin.radius
            THEN 1 ELSE 0

\* C16: graph_is_correct returns true if and only if every graph[i] holds
\* exactly the indices j with d(points[i], points[j]) <= radius, with the same
\* multiplicities and in any order, whatever the interleaving of the loop
\* iterations that share the flag.
C16_GraphIsCorrectIsExact ==
    gret # <<>> => (gret[1] <=> RowsAreNeighborSets)

\* one iteration wrote the flag and another one skipped its body on seeing it
C16_Witness ==
    /\ gret = <<FALSE>>
    /\ \E i, j \in 1 .. Len(ipc) : ipc[i] = "wrote" /\ ipc[j] = "skipped"

\* ------------------------------------------------- claims, order of phases
\* the message `m` is printed by this step
Printed(m) == m \notin out[0] /\ m \in out'[0]

TreeReported == out[0] \cap TreeVerdicts # {}
GraphReported == out[0] \cap GraphVerdicts # {}

\* each phase reports after the phases before it, and only when it is enabled
PhaseOrder ==
    /\ Printed("read points") =>
          /\ "constructed cover tree" \notin out[0]
          /\ ~ TreeReported
    /\ Printed("constructed cover tree") =>
          /\ "read points" \in out[0]
          /\ ~ TreeReported
          /\ "constructed epsilon graph" \notin out[0]
    /\ (\E v \in TreeVerdicts : Printed(v)) =>
          /\ g[0].verify_tree
          /\ "constructed cover tree" \in out[0]
          /\ "constructed epsilon graph" \notin out[0]
    /\ Printed("constructed epsilon graph") =>
          /\ g[0].radius > 0
          /\ "constructed cover tree" \in out[0]
          /\ g[0].verify_tree => TreeReported
          /\ ~ GraphReported
    /\ (\E v \in GraphVerdicts : Printed(v)) =>
          /\ g[0].verify_graph
          /\ "constructed epsilon graph" \in out[0]

\* C17: the shared-memory driver runs its phases in the order read points,
\* build tree, tree verification (only with -T), graph construction, graph
\* verification; the graph is constructed if and only if the parsed radius is
\* > 0, and it is verified only with -G and only after it was constructed.
C17_PhasesInOrder ==
    /\ [][PhaseOrder]_vars
    /\ [](Returned =>
            /\ {"read points", "constructed cover tree"} \subseteq out[0]
            /\ "constructed epsilon graph" \in out[0] <=> g[0].radius > 0
            /\ TreeReported <=> g[0].verify_tree
            /\ GraphReported => g[0].verify_graph /\ g[0].radius > 0)

\* a run with -T, -G and a positive radius that went through every phase
C17_Witness ==
    /\ Returned
    /\ g[0].verify_tree /\ g[0].verify_graph /\ g[0].radius > 0
    /\ TreeReported /\ GraphReported
    /\ Len(points) = 2

\* ------------------------------------------------- claims, clear
\* C18: after any sequence of add_vertex and clear calls the four per-vertex
\* tables have the same length, and the recorded parent of every vertex id in
\* the tree is the parent argument of the add_vertex call that returned it; in
\* particular the tree after clear() is like a freshly constructed one.
C18_TablesAgreeAfterClear ==
    /\ Len(parents) = Len(vertices)
    /\ Len(children) = Len(vertices)
    /\ Len(levels) = Len(vertices)
    /\ \A v \in VertexIds :
          /\ calls[v + 1].ret = v
          /\ parents[v + 1] = calls[v + 1].parent

\* ------------------------------------------------- claims, collectives
GraphCollectives == {"build_epsilon_graph", "exscan", "gatherv"}

\* the collectives a rank has to enter, given its parsed radius
Required(p) ==
    (Collectives \ GraphCollectives)
    \cup IF g[p].radius > 0 THEN GraphCollectives ELSE {}

Entered(p) == {c \in Collectives : p \in coll[c]}

\* rank p has left parse_arguments without exiting
PastParse(p) == g[p].fname # "NULL"

HelpGiven ==
    \E k \in 1 .. Len(argv.opts) : Getopt(MpiOptString, argv.opts[k]) = "h"

\* the command line names the input file and does not ask for the usage text
RunsToTheEnd == ~ MissingOperand(argv.operands) /\ ~ HelpGiven

AllExited == \A p \in Ranks : pc[p] = "exited"

\* C19 as stated: in the distributed driver every rank that ends returns 0,
\* whatever the common command line is.
C19_EveryRankReturnsZero ==
    \A p \in Ranks : pc[p] = "exited" => status[p] = 0

RanksAgree ==
    /\ \A p \in Ranks :
          /\ Entered(p) \subseteq Required(p)
          /\ Entered(p) # {} => PastParse(p)
          /\ \A c \in Entered(p) : pc[p] # c => coll[c] = Ranks
          /\ pc[p] = "exited" /\ PastParse(p) =>
                 /\ Entered(p) = Required(p)
                 /\ status[p] = 0
          /\ pc[p] = "exited" /\ ~ PastParse(p) =>
                 status[p] = IF HelpGiven THEN 0 ELSE 1
          /\ pc[p] = "exited" /\ RunsToTheEnd => status[p] = 0
          /\ p # 0 =>
                 /\ g[p].totsize = 0 /\ g[p].sendcounts = <<>>
                 /\ g[p].buf = <<>>
                 /\ pc[p] \notin {"read", "write"}
    /\ \A p, q \in Ranks :
          PastParse(p) /\ PastParse(q) => Required(p) = Required(q)
    /\ AllExited /\ RunsToTheEnd =>
          (files # {} <=> g[0].radius > 0)

\* the input is read and the edge file written by steps of rank 0 only
OnlyRootTouchesFiles ==
    /\ points' # points =>
          pc[0] = "read" /\ \A p \in Ranks \ {0} : pc'[p] = pc[p]
    /\ files' # files =>
          pc[0] = "write" /\ \A p \in Ranks \ {0} : pc'[p] = pc[p]

\* C19 amended: ranks started with the same command line enter the same
\* collectives (scatterv and the build, and build_epsilon_graph, exscan and
\* gatherv exactly when radius > 0), no rank leaves a collective before every
\* rank has entered it, every rank eventually exits, with 0 when the command
\* line names the input file and has no -h; only rank 0 reads the input and
\* writes the edge file.
C19_RanksAgreeAndReturn ==
    /\ []RanksAgree
    /\ [][OnlyRootTouchesFiles]_vars
    /\ <>AllExited

\* every rank went through the five collectives and returned 0, and rank 0
\* wrote the edges of three points
C19_Witness ==
    /\ AllExited
    /\ \A p \in Ranks : Entered(p) = Collectives /\ status[p] = 0
    /\ files # {}
    /\ g[0].totsize = 3

====
